---- MODULE Spec2Model ----
(***************************************************************************)
(* Model of server.js: the GET /injuries route (checkCache middleware      *)
(* followed by the route handler), fetchAndCacheData, the Redis entry      *)
(* "injuryData" with its expiration, and the setInterval refresh timer.    *)
(* Every await of the source is a step boundary: an invocation is parked   *)
(* at pc "get" (redisClient.get), "fetch" (fetch + response.json) or "set" *)
(* (redisClient.setEx) until the awaited call settles.                     *)
(***************************************************************************)
EXTENDS Naturals, Sequences, FiniteSets, TLC

(* ---------------------------- bounds ----------------------------------- *)
MaxReqs == 2        \* GET /injuries requests that arrive
MaxTimerRuns == 1   \* firings of the refresh timer
MaxTicks == 2       \* advances of the clock

(* ------------------------- program constants --------------------------- *)
TTL_SECONDS == 43200

(* Variant: the interval is given in seconds where milliseconds are due.   *)
REFRESH_INTERVAL_MS_seconds == TTL_SECONDS

REFRESH_INTERVAL_MS == 43200000

IntervalSeconds == REFRESH_INTERVAL_MS \div 1000

Reqs == 1..MaxReqs
TimerRuns == (MaxReqs + 1)..(MaxReqs + MaxTimerRuns)
Procs == Reqs \cup TimerRuns


(* ----------------------------- JS values ------------------------------- *)
(* A JS value is null or an object; of an object only the top-level        *)
(* "response" member matters to the program, kept as the JSON text of its  *)
(* value ("absent" when the object has no such member).                    *)
ResponseTokens == {"absent", "null", "0", "false", "\"\"", "[]",
                   "[{\"player\":\"X\"}]", "[{\"player\":\"Y\"}]"}
JSnull == [k |-> "null", r |-> "absent"]
JSObject(tok) == [k |-> "obj", r |-> tok]
JSValues == {JSnull} \cup {JSObject(tok) : tok \in ResponseTokens}
SyntaxError == [k |-> "throw", r |-> "absent"]
Pending == [k |-> "pending", r |-> "absent"]

(* JS truthiness of the value a "response" member holds. *)
Truthy(tok) == tok \notin {"absent", "null", "0", "false", "\"\""}

JSONstringify(v) ==
  IF v.k = "null" THEN "null"
  ELSE IF v.r = "absent" THEN "{}"
  ELSE "{\"response\":" \o v.r \o "}"

JSONparse(text) ==
  IF \E v \in JSValues : JSONstringify(v) = text
  THEN CHOOSE v \in JSValues : JSONstringify(v) = text
  ELSE SyntaxError

(* What redisClient.get resolves with when the key is missing. *)
NULL == "(nil)"

(* What the upstream call can produce: a rejected fetch, or a body text. *)
NetworkError == "(network error)"
UpstreamBodies == {"<html>", "{}", "{\"response\":0}",
                   "{\"response\":[{\"player\":\"Y\"}]}"}
UpstreamOutcomes == {NetworkError} \cup UpstreamBodies
NotCalled == "(not called)"

(* ------------------------------ Redis ---------------------------------- *)
(* The entry under "injuryData": its value and expiration instant; `at`    *)
(* remembers the instant of the write.                                     *)
NoEntry == [present |-> FALSE, val |-> "", at |-> 0, exp |-> 0]

RedisGet(s, t) == IF s.present /\ t < s.exp THEN s.val ELSE NULL

RedisSetEx(t, ttl, value) ==
  [present |-> TRUE, val |-> value, at |-> t, exp |-> t + ttl]

(* Variant: the TTL passed to setEx is twice the intended one.             *)
CacheWrite_doubleTTL(t, d) == RedisSetEx(t, 2 * TTL_SECONDS, JSONstringify(d))

(* `redisClient.setEx("injuryData", 43200, JSON.stringify(data))` at t.    *)
CacheWrite(t, d) == RedisSetEx(t, TTL_SECONDS, JSONstringify(d))

(* ----------------------------- responses ------------------------------- *)
resJson(v) == [status |-> 200, body |-> JSONstringify(v)]

FailureResponse == [status |-> 500, body |-> "{\"message\":\"Failed to fetch data\"}"]

VARIABLES now, ticks, nextFire, timerRuns, store,
          pc, cachedData, getError, upstream, data, setResult, returned,
          sent, calls, lastSet, overtaken

vars == <<now, ticks, nextFire, timerRuns, store,
          pc, cachedData, getError, upstream, data, setResult, returned,
          sent, calls, lastSet, overtaken>>

(* Bookkeeping on the order of the calls: lastSet names the invocation     *)
(* whose setEx resolved last and tells whether another invocation's        *)
(* upstream call was accepted while that setEx was pending; overtaken[p]   *)
(* holds while p's setEx is pending and such a call has been accepted.     *)
orderVars == <<lastSet, overtaken>>

NoSet == [by |-> 0, stale |-> FALSE]

clockVars == <<now, ticks, nextFire, timerRuns>>

NoCalls == [get |-> 0, fetch |-> 0, set |-> 0]

(* The process starts at StartTime; an earlier run of the same program     *)
(* may have left an entry, here one with a second left to live.            *)
StartTime == TTL_SECONDS - 1
EarlierEntries == {RedisSetEx(0, TTL_SECONDS, JSONstringify(JSObject("[{\"player\":\"X\"}]")))}

(* A value a foreign writer may have left under the key: not JSON.        *)
ForeignEntries == {RedisSetEx(0, TTL_SECONDS, "<corrupt>")}

(* The clock, in seconds, is observed at every multiple of the refresh     *)
(* interval after the start and one second after each of them.             *)
TickSize(t) ==
  IF (t - StartTime) % IntervalSeconds = 0 THEN 1 ELSE IntervalSeconds - 1

InitWith(stores) ==
  /\ now = StartTime
  /\ ticks = 0
  /\ nextFire = StartTime + IntervalSeconds
  /\ timerRuns = 0
  /\ store \in stores
  /\ pc = [p \in Procs |-> "idle"]
  /\ cachedData = [p \in Procs |-> NULL]
  /\ getError = [p \in Procs |-> FALSE]
  /\ upstream = [p \in Procs |-> NotCalled]
  /\ data = [p \in Procs |-> Pending]
  /\ setResult = [p \in Procs |-> "none"]
  /\ returned = [p \in Procs |-> Pending]
  /\ sent = [p \in Procs |-> <<>>]
  /\ calls = [p \in Procs |-> NoCalls]
  /\ lastSet = NoSet
  /\ overtaken = [p \in Procs |-> FALSE]

Init == InitWith({NoEntry} \cup EarlierEntries)

InitForeign == InitWith(ForeignEntries)

(* ------------------------- fetchAndCacheData --------------------------- *)
(* Variant: the body is not validated at all.                              *)
InvalidAPIResponse_unchecked(d) == FALSE

(* `if (!data.response) throw`: reading .response of null throws as well.  *)
InvalidAPIResponse(d) == d.k # "obj" \/ ~Truthy(d.r)

(* What `fetch` + `response.json()` leave in `data`, or the reason the try *)
(* block is abandoned.                                                     *)
FetchFails(o) ==
  \/ o = NetworkError
  \/ JSONparse(o) = SyntaxError
  \/ InvalidAPIResponse(JSONparse(o))

(* Variant: the failure response names the cause.                          *)
RouteRespond_leak(v) ==
  IF v.k = "obj" THEN resJson(v)
  ELSE [status |-> 502, body |-> "{\"message\":\"Invalid API response\"}"]

(* The route handler's continuation after `await fetchAndCacheData()`.     *)
RouteRespond(v) == IF v.k = "obj" THEN resJson(v) ELSE FailureResponse

(* fetchAndCacheData returns v to its caller: the route handler answers    *)
(* the request, the timer discards the value.                              *)
Return(p, v) ==
  /\ returned' = [returned EXCEPT ![p] = v]
  /\ pc' = [pc EXCEPT ![p] = "done"]
  /\ sent' = IF p \in Reqs
             THEN [sent EXCEPT ![p] = Append(@, RouteRespond(v))]
             ELSE sent

(* Variant: an invocation that finds an upstream call in flight waits for  *)
(* it instead of issuing its own.                                          *)
Proceed_coalesced(p) ==
  /\ pc' = [pc EXCEPT ![p] = "fetch"]
  /\ calls' = IF \E q \in Procs \ {p} : pc[q] = "fetch"
              THEN calls
              ELSE [calls EXCEPT ![p].fetch = @ + 1]
  /\ sent' = sent

(* Variant: the upstream request is issued a second time.                  *)
Proceed_twice(p) ==
  /\ pc' = [pc EXCEPT ![p] = "fetch"]
  /\ calls' = [calls EXCEPT ![p].fetch = @ + 2]
  /\ sent' = sent

(* next(): the route handler runs and calls fetchAndCacheData, which       *)
(* issues the upstream request.                                            *)
Proceed(p) ==
  /\ pc' = [pc EXCEPT ![p] = "fetch"]
  /\ calls' = [calls EXCEPT ![p].fetch = @ + 1]
  /\ sent' = sent

(* ------------------------------ checkCache ----------------------------- *)
(* Variant: the test is inverted.                                          *)
checkCacheHit_inverted(cd) == cd = NULL

(* `if (cachedData)`: null and the empty string are falsy.                 *)
checkCacheHit(cd) == cd # NULL /\ cd # ""

(* Variant: the catch block answers the request with an error.            *)
checkCacheCatch_respond(r) ==
  /\ pc' = [pc EXCEPT ![r] = "done"]
  /\ sent' = [sent EXCEPT ![r] = Append(@, FailureResponse)]
  /\ calls' = calls

(* Variant: the catch block logs the error and neither answers nor calls   *)
(* next().                                                                 *)
checkCacheCatch_swallow(r) ==
  /\ pc' = [pc EXCEPT ![r] = "hung"]
  /\ sent' = sent
  /\ calls' = calls

(* The catch block of checkCache. *)
checkCacheCatch(r) == Proceed(r)

(* A request arrives; checkCache issues redisClient.get("injuryData").     *)
(* Requests are numbered in the order of their arrival.                    *)
Arrive(r) ==
  /\ pc[r] = "idle"
  /\ \A q \in Reqs : q < r => pc[q] # "idle"
  /\ pc' = [pc EXCEPT ![r] = "get"]
  /\ calls' = [calls EXCEPT ![r].get = @ + 1]
  /\ UNCHANGED <<orderVars, clockVars, store, cachedData, getError, upstream, data,
                 setResult, returned, sent>>

(* Variant: the read renews the expiration of the entry it returns.        *)
GetResolve_touch(r) ==
  /\ pc[r] = "get"
  /\ LET cd == RedisGet(store, now) IN
       /\ cachedData' = [cachedData EXCEPT ![r] = cd]
       /\ store' = IF cd # NULL THEN [store EXCEPT !.exp = now + TTL_SECONDS]
                   ELSE store
       /\ IF checkCacheHit(cd)
          THEN IF JSONparse(cd) = SyntaxError
               THEN checkCacheCatch(r)
               ELSE /\ sent' = [sent EXCEPT ![r] = Append(@, resJson(JSONparse(cd)))]
                    /\ pc' = [pc EXCEPT ![r] = "done"]
                    /\ calls' = calls
          ELSE Proceed(r)
  /\ UNCHANGED <<orderVars, clockVars, getError, upstream, data, setResult, returned>>

(* redisClient.get resolves. *)
GetResolve(r) ==
  /\ pc[r] = "get"
  /\ LET cd == RedisGet(store, now) IN
       /\ cachedData' = [cachedData EXCEPT ![r] = cd]
       /\ IF checkCacheHit(cd)
          THEN IF JSONparse(cd) = SyntaxError
               THEN checkCacheCatch(r)
               ELSE /\ sent' = [sent EXCEPT ![r] = Append(@, resJson(JSONparse(cd)))]
                    /\ pc' = [pc EXCEPT ![r] = "done"]
                    /\ calls' = calls
          ELSE Proceed(r)
  /\ UNCHANGED <<orderVars, clockVars, store, getError, upstream, data, setResult, returned>>

(* redisClient.get rejects (connection or query error). *)
GetReject(r) ==
  /\ pc[r] = "get"
  /\ getError' = [getError EXCEPT ![r] = TRUE]
  /\ checkCacheCatch(r)
  /\ UNCHANGED <<orderVars, clockVars, store, cachedData, upstream, data, setResult, returned>>

(* `await fetch(...)` and `await response.json()` settle with outcome o.   *)
FetchSettle(p, o) ==
  /\ pc[p] = "fetch"
  /\ upstream' = [upstream EXCEPT ![p] = o]
  /\ IF FetchFails(o)
     THEN /\ Return(p, JSnull)
          /\ UNCHANGED <<data, calls, overtaken>>
     ELSE /\ data' = [data EXCEPT ![p] = JSONparse(o)]
          /\ pc' = [pc EXCEPT ![p] = "set"]
          /\ calls' = [calls EXCEPT ![p].set = @ + 1]
          /\ overtaken' = [q \in Procs |-> q # p /\ pc[q] = "set"]
          /\ UNCHANGED <<returned, sent>>
  /\ UNCHANGED <<lastSet, clockVars, store, cachedData, getError, setResult>>

(* Variant: a write finding a live entry leaves it in place (first write   *)
(* wins).                                                                  *)
SetResolve_keepExisting(p) ==
  /\ pc[p] = "set"
  /\ store' = IF store.present /\ now < store.exp
              THEN store ELSE CacheWrite(now, data[p])
  /\ setResult' = [setResult EXCEPT ![p] = "ok"]
  /\ Return(p, data[p])
  /\ UNCHANGED <<clockVars, cachedData, getError, upstream, data, calls>>
  /\ lastSet' = [by |-> p, stale |-> overtaken[p]]
  /\ overtaken' = [overtaken EXCEPT ![p] = FALSE]

(* Variant: the expiration is not renewed when an entry is still alive.    *)
SetResolve_keepExpiry(p) ==
  /\ pc[p] = "set"
  /\ store' = [CacheWrite(now, data[p]) EXCEPT
                 !.exp = IF store.present /\ now < store.exp
                         THEN store.exp ELSE now + TTL_SECONDS]
  /\ setResult' = [setResult EXCEPT ![p] = "ok"]
  /\ Return(p, data[p])
  /\ UNCHANGED <<clockVars, cachedData, getError, upstream, data, calls>>
  /\ lastSet' = [by |-> p, stale |-> overtaken[p]]
  /\ overtaken' = [overtaken EXCEPT ![p] = FALSE]

(* redisClient.setEx resolves: the entry is replaced. *)
SetResolve(p) ==
  /\ pc[p] = "set"
  /\ store' = CacheWrite(now, data[p])
  /\ setResult' = [setResult EXCEPT ![p] = "ok"]
  /\ Return(p, data[p])
  /\ UNCHANGED <<clockVars, cachedData, getError, upstream, data, calls>>
  /\ lastSet' = [by |-> p, stale |-> overtaken[p]]
  /\ overtaken' = [overtaken EXCEPT ![p] = FALSE]

(* Variant: a rejected write is logged and the payload is still returned.  *)
SetReject_returnData(p) ==
  /\ pc[p] = "set"
  /\ setResult' = [setResult EXCEPT ![p] = "error"]
  /\ Return(p, data[p])
  /\ UNCHANGED <<lastSet, clockVars, store, cachedData, getError, upstream, data, calls>>
  /\ overtaken' = [overtaken EXCEPT ![p] = FALSE]

(* redisClient.setEx rejects: the catch block returns null. *)
SetReject(p) ==
  /\ pc[p] = "set"
  /\ setResult' = [setResult EXCEPT ![p] = "error"]
  /\ Return(p, JSnull)
  /\ UNCHANGED <<lastSet, clockVars, store, cachedData, getError, upstream, data, calls>>
  /\ overtaken' = [overtaken EXCEPT ![p] = FALSE]

(* ------------------------------- timer --------------------------------- *)
(* setInterval(fetchAndCacheData, 43200000) fires. *)
TimerFire ==
  /\ timerRuns < MaxTimerRuns
  /\ now = nextFire
  /\ timerRuns' = timerRuns + 1
  /\ nextFire' = nextFire + IntervalSeconds
  /\ Proceed(MaxReqs + timerRuns + 1)
  /\ UNCHANGED <<orderVars, now, ticks, store, cachedData, getError, upstream, data,
                 setResult, returned>>

(* Time passes; a due timer fires before time passes it. *)
Tick ==
  /\ ticks < MaxTicks
  /\ now + TickSize(now) <= nextFire
  /\ now' = now + TickSize(now)
  /\ ticks' = ticks + 1
  /\ UNCHANGED <<orderVars, nextFire, timerRuns, store, pc, cachedData, getError,
                 upstream, data, setResult, returned, sent, calls>>

Next ==
  \/ \E r \in Reqs : Arrive(r)
  \/ \E r \in Reqs : GetResolve(r)
  \/ \E r \in Reqs : GetReject(r)
  \/ \E p \in Procs, o \in UpstreamOutcomes : FetchSettle(p, o)
  \/ \E p \in Procs : SetResolve(p)
  \/ \E p \in Procs : SetReject(p)
  \/ TimerFire
  \/ Tick

Spec == Init /\ [][Next]_vars

(* The same program started against a store that may hold foreign values.  *)
SpecForeign == InitForeign /\ [][Next]_vars

(* While a cache call or an upstream call is pending, one of the pending   *)
(* calls eventually settles, successfully or not.                          *)
Settle(p) ==
  \/ p \in Reqs /\ (GetResolve(p) \/ GetReject(p))
  \/ \E o \in UpstreamOutcomes : FetchSettle(p, o)
  \/ SetResolve(p) \/ SetReject(p)

CallsSettle == WF_vars(\E p \in Procs : Settle(p))

(* The server starts against an empty cache. *)
InitEmpty == InitWith({NoEntry})

SpecSettling == InitEmpty /\ [][Next]_vars /\ CallsSettle

TypeOK ==
  /\ pc \in [Procs -> {"idle", "get", "fetch", "set", "done"}]
  /\ lastSet \in [by : {0} \cup Procs, stale : BOOLEAN]
  /\ overtaken \in [Procs -> BOOLEAN]
  /\ \A p \in Procs : overtaken[p] => pc[p] = "set"
  /\ \A p \in Procs : Len(sent[p]) <= 1

(* ======================================================================= *)
(*                               Properties                                *)
(* ======================================================================= *)
GenericFailure == [status |-> 500, body |-> "{\"message\":\"Failed to fetch data\"}"]

(* The upstream call produced a body that parses to an object having a     *)
(* top-level "response" member.                                            *)
HasResponseField(o) ==
  o \in UpstreamBodies /\ JSONparse(o).k = "obj" /\ JSONparse(o).r # "absent"

(* The upstream call produced a body that parses but has no such member.   *)
LacksResponseField(o) ==
  o \in UpstreamBodies /\ JSONparse(o) # SyntaxError /\ ~HasResponseField(o)

(* The upstream call produced a body the fetcher goes on to store.         *)
UpstreamSucceeded(o) ==
  o \in UpstreamBodies /\ JSONparse(o).k = "obj" /\ Truthy(JSONparse(o).r)

(* C1: a request whose cache get returned a present, non-expired entry is  *)
(* answered 200 with exactly the stored payload, and makes no upstream     *)
(* call and no cache write.                                                *)
C1_CacheHitServed ==
  \A r \in Reqs :
    (pc[r] \notin {"idle", "get"} /\ ~getError[r] /\ cachedData[r] # NULL) =>
      /\ pc[r] = "done"
      /\ Len(sent[r]) = 1
      /\ sent[r][1].status = 200
      /\ JSONparse(cachedData[r]) # SyntaxError
      /\ JSONparse(sent[r][1].body) = JSONparse(cachedData[r])
      /\ calls[r] = [get |-> 1, fetch |-> 0, set |-> 0]
      /\ upstream[r] = NotCalled
      /\ setResult[r] = "none"

C1_Witness ==
  \E r \in Reqs :
    /\ pc[r] = "done"
    /\ cachedData[r] = "{\"response\":[{\"player\":\"Y\"}]}"
    /\ sent[r] = <<[status |-> 200, body |-> "{\"response\":[{\"player\":\"Y\"}]}"]>>

(* C2: on a miss (no entry, or an expired one), with a working store, an   *)
(* upstream body P that contains a "response" field is answered 200 with   *)
(* exactly P, and a request that then reads P from the cache is answered   *)
(* P without an upstream call of its own.                                  *)
C2_FreshFetchServedThenCached ==
  \A r \in Reqs :
    (/\ pc[r] = "done"
     /\ ~getError[r]
     /\ cachedData[r] = NULL
     /\ HasResponseField(upstream[r])
     /\ setResult[r] # "error") =>
      /\ sent[r] = <<[status |-> 200, body |-> JSONstringify(JSONparse(upstream[r]))]>>
      /\ \A q \in Reqs :
           (q # r /\ pc[q] = "done" /\ ~getError[q]
              /\ cachedData[q] = JSONstringify(JSONparse(upstream[r]))) =>
             /\ sent[q] = sent[r]
             /\ calls[q].fetch = 0

(* C3: an upstream body without a "response" field makes the fetch fail:   *)
(* the request is answered with the generic 500, no cache write is issued, *)
(* the step that receives the body leaves the entry and its expiration as  *)
(* they were, and the store never holds a value lacking the field.         *)
C3_State ==
  /\ \A r \in Reqs :
       LacksResponseField(upstream[r]) =>
         /\ pc[r] = "done"
         /\ returned[r] = JSnull
         /\ sent[r] = <<GenericFailure>>
         /\ calls[r].set = 0
         /\ setResult[r] = "none"
  /\ store.present => JSONparse(store.val).r # "absent"

C3_Step ==
  \A p \in Procs :
    (upstream[p] = NotCalled /\ LacksResponseField(upstream'[p])) => store' = store

C3_InvalidBodyNotStored == []C3_State /\ [][C3_Step]_vars

C3_Witness ==
  \E r \in Reqs :
    /\ upstream[r] = "{}"
    /\ pc[r] = "done"
    /\ cachedData[r] = NULL
    /\ store.present

(* C4: with the store unreachable (the get and the set both error) and an  *)
(* upstream body the fetcher accepts, the request is answered 200 with     *)
(* that body.                                                              *)
C4_CacheDownStill200 ==
  \A r \in Reqs :
    (pc[r] = "done" /\ getError[r] /\ setResult[r] = "error") =>
      /\ Len(sent[r]) = 1
      /\ sent[r][1].status = 200
      /\ sent[r][1].body = JSONstringify(data[r])

(* C5: when the cache set fails after a successful upstream fetch, the     *)
(* fetch still returns the payload and the request is answered 200 with it.*)
C5_WriteFailureKeepsPayload ==
  \A p \in Procs :
    setResult[p] = "error" =>
      /\ returned[p] = data[p]
      /\ p \in Reqs => sent[p] = <<resJson(data[p])>>

(* C6: an error of the cache get (a rejected get, or a stored value that   *)
(* does not parse) is a miss: the request goes on to exactly one upstream  *)
(* fetch and its only response is the one the route handler derives from   *)
(* the result of that fetch.                                               *)
CacheGetFailed(r) ==
  \/ getError[r]
  \/ cachedData[r] \notin {NULL, ""} /\ JSONparse(cachedData[r]) = SyntaxError

C6_CacheErrorIsMiss ==
  \A r \in Reqs :
    CacheGetFailed(r) =>
      /\ pc[r] \in {"fetch", "set", "done"}
      /\ calls[r].fetch = 1
      /\ pc[r] # "fetch" => upstream[r] \in UpstreamOutcomes
      /\ pc[r] # "done" => sent[r] = <<>>
      /\ pc[r] = "done" =>
           /\ returned[r] \in {JSnull, JSONparse(upstream[r])}
           /\ sent[r] = <<IF returned[r] = JSnull THEN GenericFailure
                          ELSE [status |-> 200, body |-> JSONstringify(returned[r])]>>

C6_Witness ==
  \E r, q \in Reqs :
    /\ getError[r] /\ pc[r] = "done" /\ sent[r][1].status = 200
    /\ cachedData[q] = "<corrupt>" /\ pc[q] = "done"

(* C7: a get that resolves 43,200 s or more after the entry was written    *)
(* does not return the entry, and the request goes on to the upstream      *)
(* fetch as it does when there is no entry.                                *)
C7_Step ==
  \A r \in Reqs :
    (/\ pc[r] = "get" /\ pc'[r] # "get" /\ ~getError'[r]
     /\ store.present /\ now >= store.at + 43200) =>
      /\ cachedData'[r] = NULL
      /\ pc'[r] = "fetch"
      /\ calls'[r].fetch = calls[r].fetch + 1
      /\ sent'[r] = <<>>

C7_ExpiredEntryIsMiss == [][C7_Step]_vars

C7_Witness ==
  \E r \in Reqs :
    /\ pc[r] = "fetch" /\ ~getError[r] /\ cachedData[r] = NULL
    /\ store.present /\ store.val = "{\"response\":[{\"player\":\"Y\"}]}"
    /\ now >= store.at + 43200

(* C8: a timer-triggered run issues the cache write if and only if its     *)
(* upstream call succeeded; the write it completes replaces the entry by   *)
(* the fetched payload expiring 43,200 s later, and every other step of    *)
(* the run, a failed upstream call included, leaves the entry untouched.   *)
C8_State ==
  \A p \in TimerRuns :
    /\ sent[p] = <<>>
    /\ pc[p] = "set" => UpstreamSucceeded(upstream[p]) /\ calls[p].set = 1
    /\ pc[p] = "done" =>
         /\ UpstreamSucceeded(upstream[p]) <=> calls[p].set = 1
         /\ UpstreamSucceeded(upstream[p]) <=> setResult[p] \in {"ok", "error"}
    /\ pc[p] \in {"idle", "fetch"} => calls[p].set = 0 /\ setResult[p] = "none"

C8_Step ==
  \A p \in TimerRuns :
    pc'[p] # pc[p] =>
      IF setResult'[p] = "ok"
      THEN store' = [present |-> TRUE, val |-> JSONstringify(JSONparse(upstream[p])),
                     at |-> now, exp |-> now + 43200]
      ELSE store' = store

C9_OnlyPayloadOrGeneric500 ==
  \A p \in Procs :
    /\ Len(sent[p]) <= 1
    /\ p \in TimerRuns => sent[p] = <<>>
    /\ (p \in Reqs /\ pc[p] = "done") => Len(sent[p]) = 1
    /\ pc[p] # "done" => sent[p] = <<>>
    /\ \A i \in 1..Len(sent[p]) :
         \/ sent[p][i] = GenericFailure
         \/ /\ sent[p][i].status = 200
            /\ JSONparse(sent[p][i].body).k = "obj"
            /\ \/ calls[p].fetch = 0 /\ sent[p][i].body = cachedData[p]
               \/ /\ calls[p].fetch = 1
                  /\ UpstreamSucceeded(upstream[p])
                  /\ JSONparse(sent[p][i].body) = JSONparse(upstream[p])

C9_Witness ==
  \E r, q \in Reqs :
    /\ sent[r] = <<GenericFailure>>
    /\ Len(sent[q]) = 1 /\ sent[q][1].status = 200 /\ calls[q].fetch = 1

(* C10 as stated: with no traffic and an upstream that always succeeds     *)
(* the cache holds a non-expired entry at every instant.                   *)
NoTraffic == \A r \in Reqs : pc[r] = "idle"

UpstreamAlwaysSucceeds ==
  \A p \in TimerRuns : upstream[p] = NotCalled \/ UpstreamSucceeded(upstream[p])

StoreAcceptsWrites == \A p \in TimerRuns : setResult[p] # "error"

C11_NullOnFailureElsePayload ==
  \A p \in Procs :
    (pc[p] = "done" /\ calls[p].fetch = 1) =>
      IF \/ upstream[p] = NetworkError
         \/ JSONparse(upstream[p]) = SyntaxError
         \/ LacksResponseField(upstream[p])
         \/ setResult[p] = "error"
      THEN returned[p] = JSnull
      ELSE returned[p] = JSONparse(upstream[p])

(* C12: a parsed upstream body is accepted (its cache write is issued)     *)
(* exactly when it has a top-level "response" field, whatever its value.   *)
C12_AcceptedIffFieldPresent ==
  \A p \in Procs :
    (upstream[p] \in UpstreamBodies /\ JSONparse(upstream[p]) # SyntaxError) =>
      (HasResponseField(upstream[p]) <=> calls[p].set = 1)

(* C13: there is no coalescing: every invocation that is past the cache    *)
(* check has issued an upstream call of its own, whatever calls of other   *)
(* invocations are in flight, so that two requests that both missed, and   *)
(* a timer run, have their fetches in flight together.                     *)
ServedFromCache(p) == p \in Reqs /\ pc[p] = "done" /\ upstream[p] = NotCalled

C13_NoCoalescing ==
  \A p \in Procs :
    (pc[p] \in {"fetch", "set", "done"} /\ ~ServedFromCache(p)) =>
      /\ calls[p].fetch = 1
      /\ pc[p] = "fetch" <=> upstream[p] = NotCalled

C13_Witness ==
  /\ \E r, q \in Reqs :
       /\ r # q
       /\ pc[r] = "fetch" /\ cachedData[r] = NULL /\ ~getError[r]
       /\ pc[q] = "fetch" /\ cachedData[q] = NULL /\ ~getError[q]
  /\ \E t \in TimerRuns : pc[t] = "fetch"

(* C15: an invocation makes one upstream attempt and at most one cache     *)
(* set, a failed attempt is not repeated, and a request performs at most   *)
(* one cache get, one upstream call and one cache set.                     *)
C15_SingleAttempt ==
  \A p \in Procs :
    /\ calls[p].get <= 1 /\ calls[p].fetch <= 1 /\ calls[p].set <= 1
    /\ p \in TimerRuns => calls[p].get = 0
    /\ calls[p].set <= calls[p].fetch
    /\ (p \in Reqs /\ calls[p].fetch = 1) => calls[p].get = 1
    /\ (pc[p] = "done" /\ returned[p] = JSnull) =>
         calls[p].fetch = 1 /\ upstream[p] \in UpstreamOutcomes
    /\ (pc[p] = "done" /\ returned[p] = JSnull /\ setResult[p] = "none") =>
         calls[p].set = 0

C15_Witness ==
  \E r \in Reqs :
    /\ pc[r] = "done" /\ upstream[r] = NetworkError
    /\ calls[r] = [get |-> 1, fetch |-> 1, set |-> 0]
    /\ sent[r] = <<GenericFailure>>

(* C17: every successful fetch, by a request or by the timer, replaces the *)
(* entry under "injuryData" by its payload, expiring 43,200 s after the    *)
(* instant of the write whatever lifetime the replaced entry had left.     *)
C17_Step ==
  \A p \in Procs :
    (setResult[p] = "none" /\ setResult'[p] = "ok") =>
      /\ UpstreamSucceeded(upstream[p])
      /\ store' = [present |-> TRUE,
                   val |-> JSONstringify(JSONparse(upstream[p])),
                   at |-> now',
                   exp |-> now' + 43200]

C17_State ==
  /\ store.present => store.exp = store.at + 43200
  /\ \A p \in Procs :
       (pc[p] = "done" /\ UpstreamSucceeded(upstream[p])) =>
         setResult[p] \in {"ok", "error"}

C17_SuccessfulFetchOverwrites == []C17_State /\ [][C17_Step]_vars

(* Two writes within the lifetime of the first: the second replaced an     *)
(* entry that was still alive.                                             *)
C17_Witness ==
  /\ \E p, q \in Procs : p # q /\ setResult[p] = "ok" /\ setResult[q] = "ok"
  /\ now = StartTime + 1
  /\ store.at = now

(* C18: a read leaves the entry as it is, and the entry changes only when  *)
(* a cache set of a successful fetch resolves; nothing deletes it.         *)
C18_Step ==
  /\ (\E r \in Reqs : pc[r] = "get" /\ pc'[r] # "get") => store' = store
  /\ store' # store =>
       /\ store'.present
       /\ \E p \in Procs :
            /\ setResult[p] = "none" /\ setResult'[p] = "ok"
            /\ UpstreamSucceeded(upstream[p])
  /\ store.present => store'.present

C18_ReadsLeaveEntry == [][C18_Step]_vars

C18_Witness ==
  \E r \in Reqs :
    /\ pc[r] = "done" /\ upstream[r] = NotCalled
    /\ cachedData[r] = store.val
    /\ store \in EarlierEntries

(* C19: the entry is absent, or the one an earlier run left, or a payload  *)
(* that an upstream call of this run returned and that passed the          *)
(* "response" check.                                                       *)
C19_OnlyFetchedPayloads ==
  \/ store = NoEntry
  \/ store \in EarlierEntries
  \/ \E p \in Procs :
       /\ setResult[p] = "ok"
       /\ UpstreamSucceeded(upstream[p])
       /\ store.val = JSONstringify(JSONparse(upstream[p]))
       /\ store.val \notin {JSONstringify(JSnull), GenericFailure.body, "{}"}

C19_Witness ==
  /\ store.present /\ store \notin EarlierEntries
  /\ \E p \in Procs : pc[p] = "done" /\ upstream[p] = "{}"
  /\ \E p \in Procs : pc[p] = "done" /\ setResult[p] = "error"

(* C20: on the miss path the cache get, the upstream call, the cache set   *)
(* and the response follow one another, and a 200 produced by a fetch is   *)
(* sent only once the cache set of that fetch has resolved.                *)
C20_State ==
  \A r \in Reqs :
    /\ pc[r] = "get" =>
         calls[r] = [get |-> 1, fetch |-> 0, set |-> 0] /\ sent[r] = <<>>
    /\ pc[r] = "fetch" =>
         calls[r] = [get |-> 1, fetch |-> 1, set |-> 0] /\ sent[r] = <<>>
    /\ pc[r] = "set" =>
         /\ calls[r] = [get |-> 1, fetch |-> 1, set |-> 1]
         /\ sent[r] = <<>> /\ setResult[r] = "none"
    /\ (Len(sent[r]) = 1 /\ sent[r][1].status = 200 /\ calls[r].fetch = 1) =>
         /\ setResult[r] = "ok"
         /\ calls[r] = [get |-> 1, fetch |-> 1, set |-> 1]
         /\ store.present /\ Truthy(JSONparse(store.val).r)

C20_Step ==
  \A r \in Reqs :
    (sent[r] = <<>> /\ sent'[r] # <<>> /\ sent'[r][1].status = 200
       /\ calls[r].fetch = 1) =>
      /\ pc[r] = "set"
      /\ store' = [present |-> TRUE, val |-> sent'[r][1].body,
                   at |-> now', exp |-> now' + 43200]

C20_RespondsAfterCacheSet == []C20_State /\ [][C20_Step]_vars

C20_Witness ==
  \E r \in Reqs :
    /\ sent[r] = <<[status |-> 200, body |-> "{\"response\":[{\"player\":\"Y\"}]}"]>>
    /\ calls[r] = [get |-> 1, fetch |-> 1, set |-> 1]
    /\ store.val = sent[r][1].body

(* C16: when every cache call and upstream call settles, every request     *)
(* that arrived is answered; no step answers a request on behalf of a call *)
(* that has not settled, and a request waiting for its upstream call does  *)
(* not keep later requests from being answered.                            *)
C16_NoDeadline ==
  \A r \in Reqs : pc[r] \in {"get", "fetch", "set"} => sent[r] = <<>>

AllAnswered ==
  \A r \in Reqs : pc[r] = "idle" \/ (pc[r] = "done" /\ Len(sent[r]) = 1)

OnceArrived == \A r \in Reqs : pc[r] # "idle" => pc'[r] # "idle"

C16_EventuallyAnswered ==
  /\ []<>AllAnswered
  /\ [][OnceArrived]_vars
  /\ []C16_NoDeadline

C16_Witness ==
  \E r, q \in Reqs :
    /\ r < q
    /\ pc[r] = "fetch" /\ sent[r] = <<>>
    /\ pc[q] = "done" /\ Len(sent[q]) = 1 /\ calls[q].fetch = 1

(* C14: when fetches overlap and several of them succeed, the entry is the *)
(* one written by the setEx that resolved last: it holds that fetch's      *)
(* payload and expires 43,200 seconds after that write, even when another  *)
(* fetch's upstream call was accepted later.                               *)
C14_State ==
  lastSet.by # 0 =>
    /\ setResult[lastSet.by] = "ok"
    /\ store.present
    /\ store.val = JSONstringify(data[lastSet.by])
    /\ store.exp = store.at + 43200
    /\ store.at <= now

C14_Step ==
  lastSet' # lastSet \/ store' # store =>
    /\ pc[lastSet'.by] = "set" /\ pc'[lastSet'.by] = "done"
    /\ store' = [present |-> TRUE,
                 val |-> JSONstringify(data[lastSet'.by]),
                 at |-> now, exp |-> now + 43200]

====
